---- MODULE Spec2Model ----
(***************************************************************************)
(* get_scene_layout of PythonAPI/carla/scene_layout.py as a state machine. *)
(*                                                                         *)
(* The map service (carla.Map / carla.Waypoint) is the environment: a      *)
(* finite set of waypoints, each with road_id, lane_id, a candidate list   *)
(* for next(precision), a pose and a lane width.  The program is the       *)
(* sampler loop (one step per next() query), the lane marking builder and  *)
(* the graph assembler (one step per emitted node).  Spec is one call of    *)
(* the builder; SpecTwice is two calls in a row against the same map       *)
(* service, so that the two returned graphs can be compared.               *)
(***************************************************************************)
EXTENDS Integers, Sequences, FiniteSets, TLC

\* ------------------------------------------------------------------ bounds
NumWaypoints == 3          \* waypoints known to the map service
MaxWalk == 4               \* cap on the length of one sampled sequence
MaxSeeds == 2              \* lane segments get_topology() lists

Waypoints == 1..NumWaypoints
Roads == {1, 2}
LaneIds == {-1, 1, 2}
NoWaypoint == -1           \* the "none" sentinel of the node records

VARIABLES
  \* --- the map service
  service,          \* [road_id, lane_id, next, z]: what the service answers
  yaw,              \* yaw of the pose stored with each waypoint
  by_reference,     \* TRUE: waypoint.transform hands out the stored pose object
  topo,             \* the seeds in the order get_topology() lists them first
  \* --- one call of get_scene_layout
  call,             \* 1 or 2
  pc,               \* "seed", "walk", "assemble", "done"
  topology,         \* sorted seeds (line 41)
  s,                \* position of the for loop of line 48 in topology
  waypoints, nxt,   \* locals of the walk (lines 49-53)
  map_dict,         \* road groups, in insertion order
  cursor,           \* position of the loops of lines 67-70: [r, l, i]
  frame,            \* locals of the last assembler iteration (lines 72-108)
  waypoints_graph,  \* the graph being assembled
  \* --- across calls
  graph1,           \* what the first call returned
  sampled           \* ids appended to a sequence during this call (history)

vars == <<service, yaw, by_reference, topo, call, pc, topology, s, waypoints,
          nxt, map_dict, cursor, frame, waypoints_graph, graph1, sampled>>

\* ------------------------------------------------------- the map service
\* next(precision) answers a list of candidates: none at the end of the road
\* network, else a fork.  The builder reads the first candidate only, so the
\* second one is fixed: the waypoint after the first.
other_branch(v) == (v % NumWaypoints) + 1
CandidateLists ==
  {<<>>} \cup {<<v, other_branch(v)>> : v \in Waypoints}

\* Seed lists get_topology() can hand out: waypoints 1..k are the seeds.
SeedOrders == {[k \in 1..n |-> k] : n \in 0..MaxSeeds}

\* The waypoints whose next() the walk from seed reaches, from w on.
RECURSIVE queried_from(_, _, _, _, _)
queried_from(rd, nx, seed, w, fuel) ==
  {w} \cup (IF fuel > 0 /\ nx[w] # <<>> /\ rd[nx[w][1]] = rd[seed]
            THEN queried_from(rd, nx, seed, nx[w][1], fuel - 1) ELSE {})

queried(rd, nx, order) ==
  UNION {queried_from(rd, nx, order[k], order[k], NumWaypoints) :
           k \in 1..Len(order)}

\* Road ids and candidate lists.  What the builder never reads is fixed: a
\* waypoint it never queries has no candidates, one it never sees is on
\* road 1.
Networks(order) ==
  {p \in [Waypoints -> Roads] \X [Waypoints -> CandidateLists] :
     LET q == queried(p[1], p[2], order)
         seen == q \cup {p[2][w][1] : w \in {v \in q : p[2][v] # <<>>}}
     IN  /\ p[1][1] = 1
         /\ \A w \in Waypoints \ q : p[2][w] = <<>>
         /\ \A w \in Waypoints \ seen : p[1][w] = 1}

\* lane_id and elevation are read from seeds only (lines 41, 63): the other
\* waypoints are on lane 1.  Elevations are level, so that the seeds are
\* processed in the order listed, or falling with the id, so that sorting
\* reverses them.
Services(order) ==
  {[road_id |-> p[1], next |-> p[2], z |-> zz,
    lane_id |-> [w \in Waypoints |-> IF w <= Len(order) THEN ls[w] ELSE 1]] :
     p \in Networks(order),
     ls \in [1..Len(order) -> LaneIds],
     zz \in {[w \in Waypoints |-> 0], [w \in Waypoints |-> NumWaypoints - w]}}

Reverse(q) == [k \in 1..Len(q) |-> q[Len(q) + 1 - k]]

id_of(w) == w
road_id_of(w) == service.road_id[w]
lane_id_of(w) == service.lane_id[w]
lane_width_of(w) == 2 * (1 + (w % 2))
next_of(w) == service.next[w]

\* The pose the service stores with waypoint w; only its yaw is ever written.
\* Positions, headings and lane widths differ from waypoint to waypoint;
\* headings are multiples of 90 degrees and the pitch is 0, which keeps
\* forward vectors integral, and widths are even, which keeps w * 0.5 so.
Yaw0(w) == 90 * w
location_of(w) == [x |-> 10 * w, y |-> 5 * w, z |-> service.z[w]]

\* waypoint.transform, read while the stored yaws are yaws
transform_of(w, yaws) ==
  [location |-> location_of(w),
   rotation |-> [roll |-> 0, pitch |-> 0, yaw |-> yaws[w]]]

\* What a write to the transform handed out for w does to the stored yaws:
\* it reaches the stored pose when the attribute hands out that object, and
\* is lost with the copy otherwise.
written_back(w, transform, yaws) ==
  IF by_reference THEN [yaws EXCEPT ![w] = transform.rotation.yaw] ELSE yaws

\* get_topology(): pairs (start, end) of lane segments; the end of a segment
\* is not read by the builder.
segment_end(w) == w
get_topology(order) == [k \in 1..Len(order) |-> <<order[k], segment_end(order[k])>>]

\* carla.Transform.get_forward_vector for pitch 0 and yaw a multiple of 90.
get_forward_vector(transform) ==
  LET a == transform.rotation.yaw % 360
  IN  CASE a = 0   -> [x |-> 1,  y |-> 0,  z |-> 0]
        [] a = 90  -> [x |-> 0,  y |-> 1,  z |-> 0]
        [] a = 180 -> [x |-> -1, y |-> 0,  z |-> 0]
        [] a = 270 -> [x |-> 0,  y |-> -1, z |-> 0]

vec_add(p, q) == [x |-> p.x + q.x, y |-> p.y + q.y, z |-> p.z + q.z]
vec_scale(k, p) == [x |-> k * p.x, y |-> k * p.y, z |-> k * p.z]

\* carla.Map.transform_to_geolocation: the coordinate projector.
transform_to_geolocation(p) ==
  [latitude |-> 0 - p.y, longitude |-> p.x, altitude |-> p.z]

\* ------------------------------------------------------ get_scene_layout
\* _lateral_shift: rotates the transform it is given, in place, then shifts.
lateral_shift(transform, shift) ==
  LET rotated == [transform EXCEPT !.rotation.yaw = @ + 90]
  IN  [transform |-> rotated,
       result    |-> vec_add(rotated.location,
                             vec_scale(shift, get_forward_vector(rotated)))]

\* One list comprehension of lines 56-57 over ws, with sign -1 (left) or +1
\* (right).  yaws is the stored yaw of every waypoint; it is written back
\* when the transform handed out is the stored object.
RECURSIVE marking(_, _, _)
marking(ws, sign, yaws) ==
  IF ws = <<>> THEN [marks |-> <<>>, yaws |-> yaws]
  ELSE LET w == Head(ws)
           r == lateral_shift(transform_of(w, yaws),
                              sign * (lane_width_of(w) \div 2))
           yaws1 == written_back(w, r.transform, yaws)
           rest == marking(Tail(ws), sign, yaws1)
       IN  [marks |-> <<r.result>> \o rest.marks, yaws |-> rest.yaws]

\* sorted(topology, key=z): a stable insertion sort.
RECURSIVE insert_sorted(_, _)
insert_sorted(q, w) ==
  IF q = <<>> THEN <<w>>
  ELSE IF service.z[w] < service.z[Head(q)] THEN <<w>> \o q
       ELSE <<Head(q)>> \o insert_sorted(Tail(q), w)

RECURSIVE sorted(_)
sorted(q) ==
  IF q = <<>> THEN <<>>
  ELSE insert_sorted(sorted(SubSeq(q, 1, Len(q) - 1)), q[Len(q)])

sorted_topology(order) ==
  sorted([k \in 1..Len(order) |-> get_topology(order)[k][1]])

\* mutant: the walk goes on whatever road the candidate is on
walk_continues_any_road(waypoint, n) ==
  n # <<>>

\* the while condition of line 51
walk_continues(waypoint, n) ==
  n # <<>> /\ road_id_of(n[1]) = road_id_of(waypoint)

\* position of a key in an insertion-ordered dict, 0 when absent
road_index(md, r) ==
  IF \E k \in 1..Len(md) : md[k].road_key = r
  THEN CHOOSE k \in 1..Len(md) : md[k].road_key = r ELSE 0

lane_index(g, l) ==
  IF \E k \in 1..Len(g) : g[k].lane_key = l
  THEN CHOOSE k \in 1..Len(g) : g[k].lane_key = l ELSE 0

\* lines 61-63
store_lane(md, r, l, lane) ==
  LET md1 == IF road_index(md, r) = 0
             THEN Append(md, [road_key |-> r, lanes |-> <<>>]) ELSE md
      k == road_index(md1, r)
      g == md1[k].lanes
      j == lane_index(g, l)
      entry == [lane_key |-> l, waypoints |-> lane.waypoints,
                left_marking |-> lane.left_marking,
                right_marking |-> lane.right_marking]
      g1 == IF j = 0 THEN Append(g, entry) ELSE [g EXCEPT ![j] = entry]
  IN  [md1 EXCEPT ![k].lanes = g1]

\* mutant: lane 0 is not skipped
resolve_left_no_skip(lane_key) ==
  lane_key - 1

\* mutant: the right key is computed with the expression of the left key
resolve_right_as_left(lane_key) ==
  IF lane_key - 1 # 0 THEN lane_key - 1 ELSE lane_key - 2

\* line 75
resolve_left(lane_key) ==
  IF lane_key - 1 # 0 THEN lane_key - 1 ELSE lane_key - 2

\* line 76
resolve_right(lane_key) ==
  IF lane_key + 1 # 0 THEN lane_key + 1 ELSE lane_key + 2

\* mutant: the last index of the neighbour lane counts as out of range
neighbor_id_short(g, key, i) ==
  IF lane_index(g, key) # 0
  THEN LET ws == g[lane_index(g, key)].waypoints
       IN  IF i + 1 < Len(ws) THEN id_of(ws[i + 1]) ELSE NoWaypoint
  ELSE NoWaypoint

\* lines 79-83 and 85-89: g is map_dict[road_key], i is 0-based
neighbor_id(g, key, i) ==
  IF lane_index(g, key) # 0
  THEN LET ws == g[lane_index(g, key)].waypoints
       IN  IF i < Len(ws) THEN id_of(ws[i + 1]) ELSE NoWaypoint
  ELSE NoWaypoint

\* mutant: the immediate successor only
next_ids_single_hop(ws, i) ==
  IF i + 1 < Len(ws) THEN <<id_of(ws[i + 2])>> ELSE <<>>

\* line 72: ids of lane["waypoints"][i + 1:]
next_ids_of(ws, i) == [k \in 1..(Len(ws) - (i + 1)) |-> id_of(ws[i + 1 + k])]

\* lines 72-108 for road r (position in map_dict), lane l, index i (0-based)
node_frame(r, l, i) ==
  LET road == map_dict[r]
      lane == road.lanes[l]
      w == lane.waypoints[i + 1]
      left_lane_key == resolve_left(lane.lane_key)
      right_lane_key == resolve_right(lane.lane_key)
      lm == transform_to_geolocation(lane.left_marking[i + 1])
      rm == transform_to_geolocation(lane.right_marking[i + 1])
      wl == transform_to_geolocation(transform_of(w, yaw).location)
      wo == transform_of(w, yaw).rotation
  IN  [id |-> id_of(w), road_key |-> road.road_key, lane_key |-> lane.lane_key,
       i |-> i,
       left_lane_key |-> left_lane_key, right_lane_key |-> right_lane_key,
       waypoint_dict |->
         [road_id |-> road.road_key,
          lane_id |-> lane.lane_key,
          position |-> <<wl.latitude, wl.longitude, wl.altitude>>,
          orientation |-> <<wo.roll, wo.pitch, wo.yaw>>,
          left_margin_position |-> <<lm.latitude, lm.longitude, lm.altitude>>,
          right_margin_position |-> <<rm.latitude, rm.longitude, rm.altitude>>,
          next_waypoints_ids |-> next_ids_of(lane.waypoints, i),
          left_lane_waypoint_id |-> neighbor_id(road.lanes, left_lane_key, i),
          right_lane_waypoint_id |-> neighbor_id(road.lanes, right_lane_key, i)]]

\* the loops of lines 67-70 move on
advance(c) ==
  LET road == map_dict[c.r]
      lane == road.lanes[c.l]
  IN  IF c.i + 1 < Len(lane.waypoints) THEN [c EXCEPT !.i = @ + 1]
      ELSE IF c.l < Len(road.lanes) THEN [r |-> c.r, l |-> c.l + 1, i |-> 0]
      ELSE [r |-> c.r + 1, l |-> 1, i |-> 0]

NoFrame == [id |-> NoWaypoint]
EmptyGraph == [w \in {} |-> NoFrame]

\* ----------------------------------------------------------------- steps
Init ==
  /\ \E order \in SeedOrders :
       /\ service \in Services(order)
       /\ topo = order
       /\ topology = sorted_topology(order)
  /\ yaw = [w \in Waypoints |-> Yaw0(w)]
  /\ by_reference \in BOOLEAN
  /\ call = 1
  /\ pc = "seed"
  /\ s = 1
  /\ waypoints = <<>>
  /\ nxt = <<>>
  /\ map_dict = <<>>
  /\ cursor = [r |-> 1, l |-> 1, i |-> 0]
  /\ frame = NoFrame
  /\ waypoints_graph = EmptyGraph
  /\ graph1 = EmptyGraph
  /\ sampled = {}

\* lines 48-50: the for loop takes the next seed
BeginSeed ==
  /\ pc = "seed"
  /\ s <= Len(topology)
  /\ waypoints' = <<topology[s]>>
  /\ nxt' = next_of(topology[s])
  /\ sampled' = sampled \cup {id_of(topology[s])}
  /\ pc' = "walk"
  /\ UNCHANGED <<service, yaw, by_reference, topo, call, topology, s, map_dict,
                 cursor, frame, waypoints_graph, graph1>>

\* lines 51-53: one turn of the while loop
WalkStep ==
  /\ pc = "walk"
  /\ walk_continues(topology[s], nxt)
  /\ Len(waypoints) < MaxWalk
  /\ waypoints' = Append(waypoints, nxt[1])
  /\ nxt' = next_of(nxt[1])
  /\ sampled' = sampled \cup {id_of(nxt[1])}
  /\ UNCHANGED <<service, yaw, by_reference, topo, call, pc, topology, s,
                 map_dict, cursor, frame, waypoints_graph, graph1>>

\* lines 51, 56-63: the while loop ends; markings; the lane record is stored
StoreLane ==
  /\ pc = "walk"
  /\ ~walk_continues(topology[s], nxt)
  /\ LET waypoint == topology[s]
         left == marking(waypoints, -1, yaw)
         right == marking(waypoints, 1, left.yaws)
         lane == [waypoints |-> waypoints, left_marking |-> left.marks,
                  right_marking |-> right.marks]
     IN  /\ yaw' = right.yaws
         /\ map_dict' = store_lane(map_dict, road_id_of(waypoint),
                                   lane_id_of(waypoint), lane)
  /\ s' = s + 1
  /\ pc' = "seed"
  /\ UNCHANGED <<service, by_reference, topo, call, topology, waypoints, nxt,
                 cursor, frame, waypoints_graph, graph1, sampled>>

\* lines 48, 66: the for loop is exhausted
BeginAssemble ==
  /\ pc = "seed"
  /\ s > Len(topology)
  /\ pc' = "assemble"
  /\ cursor' = [r |-> 1, l |-> 1, i |-> 0]
  /\ waypoints_graph' = EmptyGraph
  /\ UNCHANGED <<service, yaw, by_reference, topo, call, topology, s,
                 waypoints, nxt, map_dict, frame, graph1, sampled>>

\* lines 70-109: one node record
EmitNode ==
  /\ pc = "assemble"
  /\ cursor.r <= Len(map_dict)
  /\ frame' = node_frame(cursor.r, cursor.l, cursor.i)
  /\ waypoints_graph' = (frame'.id :> frame'.waypoint_dict) @@ waypoints_graph
  /\ cursor' = advance(cursor)
  /\ UNCHANGED <<service, yaw, by_reference, topo, call, pc, topology, s,
                 waypoints, nxt, map_dict, graph1, sampled>>

\* line 111
Return ==
  /\ pc = "assemble"
  /\ cursor.r > Len(map_dict)
  /\ pc' = "done"
  /\ graph1' = IF call = 1 THEN waypoints_graph ELSE graph1
  /\ UNCHANGED <<service, yaw, by_reference, topo, call, topology, s,
                 waypoints, nxt, map_dict, cursor, frame, waypoints_graph,
                 sampled>>

\* The caller calls get_scene_layout again; get_topology() lists the same
\* seeds, in the same or in the opposite order.  Lines 40-45 run.
CallAgain ==
  /\ pc = "done"
  /\ call = 1
  /\ \E order \in {topo, Reverse(topo)} :
       topology' = sorted_topology(order)
  /\ call' = 2
  /\ pc' = "seed"
  /\ s' = 1
  /\ waypoints' = <<>>
  /\ nxt' = <<>>
  /\ map_dict' = <<>>
  /\ cursor' = [r |-> 1, l |-> 1, i |-> 0]
  /\ frame' = NoFrame
  /\ waypoints_graph' = EmptyGraph
  /\ sampled' = {}
  /\ UNCHANGED <<service, yaw, by_reference, topo, graph1>>

\* one call of get_scene_layout
Next ==
  \/ BeginSeed
  \/ WalkStep
  \/ StoreLane
  \/ BeginAssemble
  \/ EmitNode
  \/ Return

Spec == Init /\ [][Next]_vars

\* two calls in a row against the same map service
NextTwice ==
  \/ Next
  \/ CallAgain

SpecTwice == Init /\ [][NextTwice]_vars

\* ---------------------------------------------------------------- claims
\* every lane record of map_dict, with the key of its road group
LaneRecords ==
  UNION {{[road_key |-> map_dict[r].road_key, lane |-> map_dict[r].lanes[l]] :
            l \in 1..Len(map_dict[r].lanes)} : r \in 1..Len(map_dict)}

\* the lane records of the road group of road R whose lane id is L
LanesOf(R, L) ==
  {rec.lane : rec \in {x \in LaneRecords : x.road_key = R /\ x.lane.lane_key = L}}

\* the skip rule as the specification words it
LeftOf(L) == IF L - 1 = 0 THEN L - 2 ELSE L - 1
RightOf(L) == IF L + 1 = 0 THEN L + 2 ELSE L + 1

Emitted == pc \in {"assemble", "done"} /\ frame # NoFrame

\* what the neighbour id of a node at index i of road R must be for lane id L
NeighborOf(R, L, i) ==
  IF \E lane \in LanesOf(R, L) : Len(lane.waypoints) > i
  THEN (CHOOSE lane \in LanesOf(R, L) : TRUE).waypoints[i + 1]
  ELSE NoWaypoint

\* C1: two calls in a row against the same map service, listing its seeds in
\* the same order, return the same graph: same keys, same node records.
C1_Idempotent ==
  (call = 2 /\ pc = "done" /\ topology = sorted_topology(topo))
    => waypoints_graph = graph1

\* C2: the node emitted from index i of lane L of road R has as its left
\* (right) neighbour id the id at index i of lane LeftOf(L) (RightOf(L)) of
\* the same road group when that lane exists and is long enough, else -1.
C2_NeighborResolution ==
  Emitted =>
    /\ frame.waypoint_dict.left_lane_waypoint_id
         = NeighborOf(frame.road_key, LeftOf(frame.lane_key), frame.i)
    /\ frame.waypoint_dict.right_lane_waypoint_id
         = NeighborOf(frame.road_key, RightOf(frame.lane_key), frame.i)
    /\ \A side \in {frame.waypoint_dict.left_lane_waypoint_id,
                    frame.waypoint_dict.right_lane_waypoint_id} :
         side # NoWaypoint =>
           \E rec \in LaneRecords :
             /\ rec.road_key = frame.road_key
             /\ frame.i < Len(rec.lane.waypoints)
             /\ rec.lane.waypoints[frame.i + 1] = side
    /\ (LanesOf(frame.road_key, LeftOf(frame.lane_key)) = {}
        /\ LanesOf(frame.road_key, RightOf(frame.lane_key)) = {})
         => /\ frame.waypoint_dict.left_lane_waypoint_id = NoWaypoint
            /\ frame.waypoint_dict.right_lane_waypoint_id = NoWaypoint

\* a node with a left neighbour and a node of a longer lane without one
C2_Witness ==
  /\ Emitted
  /\ frame.i = 1
  /\ frame.waypoint_dict.left_lane_waypoint_id = NoWaypoint
  /\ LanesOf(frame.road_key, LeftOf(frame.lane_key)) # {}
  /\ \E id \in DOMAIN waypoints_graph :
       waypoints_graph[id].right_lane_waypoint_id # NoWaypoint

\* C3: in the returned graph every neighbour id other than -1 is a key, and
\* the record under it has the same road_id and the resolved lane_id.
C3_ReferentialIntegrity ==
  pc = "done" =>
    \A id \in DOMAIN waypoints_graph :
      LET node == waypoints_graph[id]
          left == node.left_lane_waypoint_id
          right == node.right_lane_waypoint_id
      IN  /\ left # NoWaypoint =>
               /\ left \in DOMAIN waypoints_graph
               /\ waypoints_graph[left].road_id = node.road_id
               /\ waypoints_graph[left].lane_id = LeftOf(node.lane_id)
          /\ right # NoWaypoint =>
               /\ right \in DOMAIN waypoints_graph
               /\ waypoints_graph[right].road_id = node.road_id
               /\ waypoints_graph[right].lane_id = RightOf(node.lane_id)

\* the lane records a waypoint was sampled into
RecordsWith(w) ==
  {rec \in LaneRecords :
     \E k \in 1..Len(rec.lane.waypoints) : rec.lane.waypoints[k] = w}

\* what holds of a neighbour id of a node of road R, resolved to lane id L
LinkedTo(other, R, L) ==
  other # NoWaypoint =>
    /\ other \in DOMAIN waypoints_graph
    /\ waypoints_graph[other].road_id = R
    /\ \E rec \in RecordsWith(other) :
         rec.road_key = R /\ rec.lane.lane_key = L
    /\ Cardinality(RecordsWith(other)) = 1
         => waypoints_graph[other].lane_id = L

\* C3, amended: in the returned graph every neighbour id other than -1 is a
\* key, the record under it has the same road_id, and the waypoint it names
\* is in the lane record of the resolved lane id of that road; the record
\* under it has that lane id when the waypoint is in no other lane record.
C3_LinksResolve ==
  pc = "done" =>
    \A id \in DOMAIN waypoints_graph :
      LET node == waypoints_graph[id]
      IN  /\ LinkedTo(node.left_lane_waypoint_id, node.road_id,
                      LeftOf(node.lane_id))
          /\ LinkedTo(node.right_lane_waypoint_id, node.road_id,
                      RightOf(node.lane_id))

\* a returned graph with a left and a right link between two lanes, and one
\* with a link to a waypoint that two lane records share
C3_Witness ==
  /\ pc = "done"
  /\ \E id \in DOMAIN waypoints_graph :
       LET node == waypoints_graph[id]
       IN  /\ node.right_lane_waypoint_id # NoWaypoint
           /\ waypoints_graph[node.right_lane_waypoint_id].lane_id
                = RightOf(node.lane_id)
           /\ waypoints_graph[node.right_lane_waypoint_id].left_lane_waypoint_id
                = id

\* C4: the node emitted from index i of a sequence of length n lists the ids
\* at indices i+1 .. n-1 of that sequence, in order: n-1-i of them.
C4_ForwardSuccessors ==
  Emitted =>
    \E lane \in LanesOf(frame.road_key, frame.lane_key) :
      LET ws == lane.waypoints
          ids == frame.waypoint_dict.next_waypoints_ids
      IN  /\ ws[frame.i + 1] = frame.id
          /\ Len(ids) = Len(ws) - 1 - frame.i
          /\ \A k \in 1..Len(ids) : ids[k] = ws[frame.i + 1 + k]
          /\ (frame.i = Len(ws) - 1) => ids = <<>>

\* the first node of a sequence of three, with both successors
C4_Witness ==
  /\ Emitted
  /\ frame.i = 0
  /\ Len(frame.waypoint_dict.next_waypoints_ids) = 2

\* C5: the resolved left lane id of lane L is L-1, or L-2 when L-1 = 0; the
\* right one is L+1, or L+2 when L+1 = 0; neither is 0, and each undoes the
\* other.
C5_SkipRule ==
  Emitted =>
    LET L == frame.lane_key
        left == frame.left_lane_key
        right == frame.right_lane_key
    IN  /\ L # 0
        /\ left = LeftOf(L)
        /\ right = RightOf(L)
        /\ left # 0 /\ right # 0
        /\ resolve_left(right) = L
        /\ resolve_right(left) = L
        /\ (L = 1 => left = -1 /\ right = 2)
        /\ (L = -1 => left = -2 /\ right = 1)
        /\ (L = 2 => left = 1 /\ right = 3)

\* a node of lane 1, whose left neighbour lane skips 0
C5_Witness ==
  /\ Emitted
  /\ frame.lane_key = 1
  /\ frame.left_lane_key = -1

\* a sequence is a walk from seed along first candidates, on the seed's road
IsWalk(ws, seed) ==
  /\ ws # <<>>
  /\ ws[1] = seed
  /\ \A k \in 1..Len(ws) : road_id_of(ws[k]) = road_id_of(seed)
  /\ \A k \in 1..(Len(ws) - 1) :
       /\ next_of(ws[k]) # <<>>
       /\ ws[k + 1] = Head(next_of(ws[k]))

\* the walk could not go on after its last element
IsStopped(ws) ==
  LET n == next_of(ws[Len(ws)])
  IN  n = <<>> \/ road_id_of(Head(n)) # road_id_of(ws[1])

\* C6: the sequence sampled from a seed starts with the seed, follows the
\* first candidate of next() at each step, stays on the seed's road, and
\* ends where next() has no candidate or leads to another road.
C6_SamplerWalk ==
  /\ pc = "walk" => IsWalk(waypoints, topology[s])
  /\ \A rec \in LaneRecords :
       /\ IsWalk(rec.lane.waypoints, rec.lane.waypoints[1])
       /\ IsStopped(rec.lane.waypoints)
       /\ rec.road_key = road_id_of(rec.lane.waypoints[1])
  /\ (pc = "seed" /\ s > 1) =>
       /\ waypoints[1] = topology[s - 1]
       /\ \E rec \in LaneRecords : rec.lane.waypoints = waypoints

\* a stored sequence of two or more that ends at a change of road, and a
\* stored sequence of one
C6_Witness ==
  /\ \E rec \in LaneRecords :
       /\ Len(rec.lane.waypoints) >= 2
       /\ next_of(rec.lane.waypoints[Len(rec.lane.waypoints)]) # <<>>
  /\ \E rec \in LaneRecords : Len(rec.lane.waypoints) = 1

\* C7: the orientation of every node is the roll, pitch and yaw of the pose
\* the map service held for that waypoint before the build, and the build
\* leaves every stored pose as it was.
C7_OrientationPassThrough ==
  /\ \A id \in DOMAIN waypoints_graph :
       waypoints_graph[id].orientation = <<0, 0, Yaw0(id)>>
  /\ yaw = [w \in Waypoints |-> Yaw0(w)]

\* C8: the build makes a bounded number of next() queries: a walk that ends
\* appends no waypoint twice, so no sequence grows beyond the number of
\* waypoints of the map.
C8_BoundedQueries ==
  Len(waypoints) <= NumWaypoints

\* C9: every sampled waypoint id is a key of the returned graph, and a
\* second build that processes the seeds in another order returns the same
\* graph (stated for a map service that hands out copies of its poses).
C9_OrderIndependent ==
  /\ pc = "done" => sampled \subseteq DOMAIN waypoints_graph
  /\ (call = 2 /\ pc = "done" /\ ~by_reference) => waypoints_graph = graph1

\* C10: left_marking[i] = p - (w/2) * forward(yaw + 90) and right_marking[i]
\* = p + (w/2) * forward(yaw + 90) for the original pose of waypoints[i], so
\* their sum is 2p; the three lists of a lane record are equally long.
C10_MarkingGeometry ==
  \A rec \in LaneRecords :
    LET lane == rec.lane
    IN  /\ Len(lane.left_marking) = Len(lane.waypoints)
        /\ Len(lane.right_marking) = Len(lane.waypoints)
        /\ \A k \in 1..Len(lane.waypoints) :
             LET w == lane.waypoints[k]
                 p == location_of(w)
                 side == get_forward_vector(
                           [rotation |-> [yaw |-> Yaw0(w) + 90]])
                 half == lane_width_of(w) \div 2
             IN  /\ lane.left_marking[k] = vec_add(p, vec_scale(0 - half, side))
                 /\ lane.right_marking[k] = vec_add(p, vec_scale(half, side))
                 /\ vec_add(lane.left_marking[k], lane.right_marking[k])
                      = vec_scale(2, p)
\* ------------------------------------------- the pose claims, for copies
\* C1, C7 and C10 restricted to a map service whose transform attribute
\* hands out a copy of the stored pose, and the order half of C9 alone.
CopyService_Idempotent == ~by_reference => C1_Idempotent
CopyService_OrientationPassThrough == ~by_reference => C7_OrientationPassThrough
CopyService_MarkingGeometry == ~by_reference => C10_MarkingGeometry
CopyService_SameGraphInAnyOrder ==
  (call = 2 /\ pc = "done" /\ ~by_reference) => waypoints_graph = graph1

====
